---- MODULE Spec2Model ----
(***************************************************************************)
(* Response classification and human-in-the-loop budget approval of the    *)
(* travel chat (src/components/travel-chat.tsx, ChatInner) together with   *)
(* the display slots of the page that hosts it (src/app/page.tsx, Home).   *)
(*                                                                         *)
(* JavaScript values are modelled structurally.  A leaf is a record        *)
(* [t, n, s]: t is the JS type, n the number (or the length of an array),  *)
(* s the text of a string.  A value is a leaf extended with f, the         *)
(* properties of an object.  Strings that travel as message results are    *)
(* TLA+ strings, so startsWith / substring act on their characters.        *)
(***************************************************************************)
EXTENDS Integers, Sequences, FiniteSets, TLC

----------------------------------------------------------------------------
(* JavaScript values *)

Fields == {"destination", "itinerary", "totalBudget", "breakdown",
           "forecast", "meals", "currency"}

Undef   == [t |-> "undef", n |-> 0, s |-> ""]
Null    == [t |-> "null",  n |-> 0, s |-> ""]
Num(k)  == [t |-> "num",   n |-> k, s |-> ""]
Str(x)  == [t |-> "str",   n |-> 0, s |-> x]
Bool(b) == [t |-> "bool",  n |-> IF b THEN 1 ELSE 0, s |-> ""]
Arr(k)  == [t |-> "arr",   n |-> k, s |-> ""]

NoProps == [k \in Fields |-> Undef]

\* a primitive (or array) as a top-level value: it has none of the properties
Prim(leaf) == [t |-> leaf.t, n |-> leaf.n, s |-> leaf.s, f |-> NoProps]

\* an object literal; r is a record of the properties that are present
Obj(r) == [t |-> "obj", n |-> 0, s |-> "",
           f |-> [k \in Fields |-> IF k \in DOMAIN r THEN r[k] ELSE Undef]]

JSUndefined == Prim(Undef)
JSNull      == Prim(Null)

\* parsed.<name>: property access never throws on a truthy value
Get(v, name) == IF v.t = "obj" THEN v.f[name] ELSE Undef

\* a presence test in place of truthiness: only undefined and null fail it
Truthy_Present(v) == v.t \notin {"undef", "null"}

\* JavaScript truthiness, as used by `if (parsed)` and the `&&` chains
Truthy(v) ==
  CASE v.t = "undef" -> FALSE
    [] v.t = "null"  -> FALSE
    [] v.t = "bool"  -> v.n = 1
    [] v.t = "num"   -> v.n # 0
    [] v.t = "str"   -> v.s # ""
    [] OTHER         -> TRUE

IsArray(v) == v.t = "arr"

Digit == <<"0", "1", "2", "3", "4", "5", "6", "7", "8", "9">>

RECURSIVE NumToString(_)
NumToString(k) ==
  IF k < 0 THEN "-" \o NumToString(0 - k)
  ELSE IF k < 10 THEN Digit[k + 1]
  ELSE NumToString(k \div 10) \o Digit[(k % 10) + 1]

\* `${v}` inside a template literal
TemplateString(v) ==
  CASE v.t = "num"   -> NumToString(v.n)
    [] v.t = "str"   -> v.s
    [] v.t = "bool"  -> IF v.n = 1 THEN "true" ELSE "false"
    [] v.t = "null"  -> "null"
    [] v.t = "undef" -> "undefined"
    [] v.t = "arr"   -> IF v.n = 0 THEN "" ELSE "[object Object]"
    [] OTHER         -> "[object Object]"

----------------------------------------------------------------------------
(* Payloads the agents produce.  An array is represented by its length, so *)
(* arrays that differ in content are given different lengths here.         *)

VItinerary      == Obj([destination |-> Str("Tokyo"), itinerary |-> Arr(1)])
VItineraryEmpty == Obj([destination |-> Str("Tokyo"), itinerary |-> Arr(0)])
VItineraryText  == Obj([destination |-> Str("Tokyo"), itinerary |-> Str("soon")])
VBudget1500     == Obj([totalBudget |-> Num(1500), breakdown |-> Arr(2),
                        currency |-> Str("USD")])
VBudget1500Alt  == Obj([totalBudget |-> Num(1500), breakdown |-> Arr(1),
                        currency |-> Str("EUR")])
VBudget2000     == Obj([totalBudget |-> Num(2000), breakdown |-> Arr(0)])
VBudgetText     == Obj([totalBudget |-> Str("1500"), breakdown |-> Arr(3)])
VBudgetZero     == Obj([totalBudget |-> Num(0), breakdown |-> Arr(1)])
VWeather        == Obj([destination |-> Str("Tokyo"), forecast |-> Arr(0)])
VRestaurant     == Obj([destination |-> Str("Tokyo"), meals |-> Arr(1)])
VItinBudget     == Obj([destination |-> Str("Tokyo"), itinerary |-> Arr(1),
                        totalBudget |-> Num(1500), breakdown |-> Arr(2)])
VBudgetWeather  == Obj([totalBudget |-> Num(1500), breakdown |-> Arr(2),
                        destination |-> Str("Tokyo"), forecast |-> Arr(1)])
VWeatherMeals   == Obj([destination |-> Str("Tokyo"), forecast |-> Arr(1),
                        meals |-> Arr(1)])
VUnknown        == Obj([currency |-> Str("USD")])
VRestaurantEmpty == Obj([destination |-> Str("Tokyo"), meals |-> Arr(0)])
VBudgetZeroText  == Obj([totalBudget |-> Str("0"), breakdown |-> Arr(4)])
VBudgetNoTotal   == Obj([totalBudget |-> Str(""), breakdown |-> Arr(1)])
VItineraryNoDest == Obj([destination |-> Str(""), itinerary |-> Arr(1)])
VBudgetNullTotal == Obj([totalBudget |-> Null, breakdown |-> Arr(1)])
VItineraryDays   == Obj([destination |-> Str("Tokyo"), itinerary |-> Arr(3)])
VRestaurantDays  == Obj([destination |-> Str("Tokyo"), meals |-> Arr(4)])

Prefix == "A2A Agent Response: "

\* JSON texts and the values JSON.parse gives for them
JSONTexts == <<
  << "{\"destination\":\"Tokyo\",\"itinerary\":[{}]}",               VItinerary >>,
  << "{\"destination\":\"Tokyo\",\"itinerary\":[]}",                 VItineraryEmpty >>,
  << "{\"destination\":\"\",\"itinerary\":[{}]}",                    VItineraryNoDest >>,
  << "{\"destination\":\"Tokyo\",\"itinerary\":\"soon\"}",           VItineraryText >>,
  << "{\"totalBudget\":1500,\"breakdown\":[{},{}],\"currency\":\"USD\"}", VBudget1500 >>,
  << "{\"totalBudget\":1500,\"breakdown\":[{}],\"currency\":\"EUR\"}", VBudget1500Alt >>,
  << "{\"totalBudget\":2000,\"breakdown\":[]}",                      VBudget2000 >>,
  << "{\"totalBudget\":\"1500\",\"breakdown\":[{},{},{}]}",          VBudgetText >>,
  << "{\"totalBudget\":0,\"breakdown\":[{}]}",                       VBudgetZero >>,
  << "{\"destination\":\"Tokyo\",\"forecast\":[]}",                  VWeather >>,
  << "{\"destination\":\"Tokyo\",\"meals\":[{}]}",                   VRestaurant >>,
  << "{\"destination\":\"Tokyo\",\"itinerary\":[{}],\"totalBudget\":1500,\"breakdown\":[{},{}]}",
                                                                     VItinBudget >>,
  << "{\"totalBudget\":1500,\"breakdown\":[{},{}],\"destination\":\"Tokyo\",\"forecast\":[{}]}",
                                                                     VBudgetWeather >>,
  << "{\"destination\":\"Tokyo\",\"forecast\":[{}],\"meals\":[{}]}", VWeatherMeals >>,
  << "{\"currency\":\"USD\"}",                                       VUnknown >>,
  << "{\"destination\":\"Tokyo\",\"meals\":[]}",                     VRestaurantEmpty >>,
  << "{\"totalBudget\":\"0\",\"breakdown\":[{},{},{},{}]}",          VBudgetZeroText >>,
  << "{\"totalBudget\":\"\",\"breakdown\":[{}]}",                    VBudgetNoTotal >>,
  << "{\"totalBudget\":null,\"breakdown\":[{}]}",                    VBudgetNullTotal >>,
  << "{\"destination\":\"Tokyo\",\"itinerary\":[{\"day\":1},{\"day\":2},{\"day\":3}]}",
                                                                     VItineraryDays >>,
  << "{\"destination\":\"Tokyo\",\"meals\":[{\"day\":2,\"breakfast\":\"Cafe A\"},{\"day\":1,\"breakfast\":\"Bakery\"},{\"day\":2,\"breakfast\":\"Cafe B\"},{\"day\":5,\"breakfast\":\"Diner\"}]}",
                                                                     VRestaurantDays >>,
  << "null",                                                         JSNull >>,
  << "7",                                                            Prim(Num(7)) >>,
  << "0",                                                            Prim(Num(0)) >>,
  << "\"hi\"",                                                       Prim(Str("hi")) >>,
  << "true",                                                         Prim(Bool(TRUE)) >>,
  << "[]",                                                           Prim(Arr(0)) >>
>>

\* the JSON text of a value of the table
TextOf(v) == LET i == CHOOSE j \in 1..Len(JSONTexts) : JSONTexts[j][2] = v
             IN  JSONTexts[i][1]

\* texts JSON.parse rejects with a SyntaxError, before or after the strip
MalformedTexts ==
  { "{not json",
    Prefix \o "{not json",
    "x" \o Prefix \o TextOf(VWeather) }

----------------------------------------------------------------------------
(* String operations of the scan *)

StartsWith(str, pre) ==
  /\ Len(str) >= Len(pre)
  /\ SubSeq(str, 1, Len(pre)) = pre

\* str.substring(from), from counted from 0
Substring(str, from) == SubSeq(str, from + 1, Len(str))

\* JSON.parse: ok = FALSE stands for the SyntaxError it throws
JSONParse(text) ==
  IF \E i \in 1..Len(JSONTexts) : JSONTexts[i][1] = text
  THEN [ok |-> TRUE,
        val |-> JSONTexts[CHOOSE i \in 1..Len(JSONTexts) : JSONTexts[i][1] = text][2]]
  ELSE [ok |-> FALSE, val |-> JSUndefined]

----------------------------------------------------------------------------
(* Messages of the visible stream *)

StringResult(text) == [isString |-> TRUE,  text |-> text, val |-> JSUndefined]
ValueResult(v)     == [isString |-> FALSE, text |-> "",   val |-> v]

ResultMessage(action, result) ==
  [type |-> "ResultMessage", actionName |-> action, result |-> result]

OtherMessage(type, action, result) ==
  [type |-> type, actionName |-> action, result |-> result]

A2A == "send_message_to_a2a_agent"

----------------------------------------------------------------------------
(* The scan of the effect: extractDataFromMessages *)

\* the total left out of the key
BudgetKey_Constant(totalBudget) == "budget-"

\* `budget-${totalBudget}`
BudgetKey(totalBudget) == "budget-" \o TemplateString(totalBudget)

\* the gate left out: every budget counts as approved
IsApproved_NoGate(approvals, budgetKey) == TRUE

\* the gate reading the wrong flag of the record
IsApproved_WrongField(approvals, budgetKey) ==
  IF budgetKey \in DOMAIN approvals THEN approvals[budgetKey].rejected ELSE FALSE

\* approvalStates[budgetKey]?.approved || false
IsApproved(approvals, budgetKey) ==
  IF budgetKey \in DOMAIN approvals THEN approvals[budgetKey].approved ELSE FALSE

\* every leading prefix stripped, not only the first
RECURSIVE StripAll(_)
StripAll(text) ==
  IF StartsWith(text, Prefix) THEN StripAll(Substring(text, Len(Prefix))) ELSE text

ParseResult_StripAll(result) ==
  IF result.isString
  THEN JSONParse(StripAll(result.text))
  ELSE IF result.val.t \in {"obj", "arr"}
       THEN [ok |-> TRUE, val |-> result.val]
       ELSE [ok |-> TRUE, val |-> JSUndefined]

\* the prefix never stripped before JSON.parse
ParseResult_NoStrip(result) ==
  IF result.isString
  THEN JSONParse(result.text)
  ELSE IF result.val.t \in {"obj", "arr"}
       THEN [ok |-> TRUE, val |-> result.val]
       ELSE [ok |-> TRUE, val |-> JSUndefined]

\* the value of `parsed` after the string / object branches
ParseResult(result) ==
  IF result.isString
  THEN LET cleanResult == IF StartsWith(result.text, Prefix)
                          THEN Substring(result.text, Len(Prefix))
                          ELSE result.text
       IN  JSONParse(cleanResult)
  ELSE IF result.val.t \in {"obj", "arr"}
       THEN [ok |-> TRUE, val |-> result.val]
       ELSE [ok |-> TRUE, val |-> JSUndefined]

\* an itinerary test that asks for at least one day
IsItinerary_NonEmpty(parsed) ==
  /\ Truthy(Get(parsed, "destination"))
  /\ IsArray(Get(parsed, "itinerary"))
  /\ Get(parsed, "itinerary").n > 0

IsItinerary(parsed) ==
  /\ Truthy(Get(parsed, "destination"))
  /\ Truthy(Get(parsed, "itinerary"))
  /\ IsArray(Get(parsed, "itinerary"))

IsBudget(parsed) ==
  /\ Truthy(Get(parsed, "totalBudget"))
  /\ Truthy(Get(parsed, "breakdown"))
  /\ IsArray(Get(parsed, "breakdown"))

IsWeather(parsed) ==
  /\ Truthy(Get(parsed, "destination"))
  /\ Truthy(Get(parsed, "forecast"))
  /\ IsArray(Get(parsed, "forecast"))

IsRestaurant(parsed) ==
  /\ Truthy(Get(parsed, "destination"))
  /\ Truthy(Get(parsed, "meals"))
  /\ IsArray(Get(parsed, "meals"))

\* the approval check hoisted above the whole chain
Dispatch_GateAll(parsed, approvals) ==
  IF ~Truthy(parsed) THEN << >>
  ELSE IF ~IsApproved(approvals, BudgetKey(Get(parsed, "totalBudget"))) THEN << >>
  ELSE IF IsItinerary(parsed)
       THEN << [cb |-> "onItineraryUpdate", arg |-> parsed] >>
  ELSE IF IsBudget(parsed)
       THEN << [cb |-> "onBudgetUpdate", arg |-> parsed] >>
  ELSE IF IsWeather(parsed)
       THEN << [cb |-> "setWeatherData", arg |-> parsed],
               [cb |-> "onWeatherUpdate", arg |-> parsed] >>
  ELSE IF IsRestaurant(parsed)
       THEN << [cb |-> "onRestaurantUpdate", arg |-> parsed] >>
  ELSE << >>

\* the budget branch moved in front of the itinerary branch, and the
\* restaurant branch in front of the weather branch
Dispatch_BudgetFirst(parsed, approvals) ==
  IF ~Truthy(parsed) THEN << >>
  ELSE IF IsBudget(parsed)
       THEN IF IsApproved(approvals, BudgetKey(Get(parsed, "totalBudget")))
            THEN << [cb |-> "onBudgetUpdate", arg |-> parsed] >>
            ELSE << >>
  ELSE IF IsItinerary(parsed)
       THEN << [cb |-> "onItineraryUpdate", arg |-> parsed] >>
  ELSE IF IsRestaurant(parsed)
       THEN << [cb |-> "onRestaurantUpdate", arg |-> parsed] >>
  ELSE IF IsWeather(parsed)
       THEN << [cb |-> "setWeatherData", arg |-> parsed],
               [cb |-> "onWeatherUpdate", arg |-> parsed] >>
  ELSE << >>

\* four separate ifs in place of the else-if chain
Dispatch_IndependentIfs(parsed, approvals) ==
  IF ~Truthy(parsed) THEN << >>
  ELSE (IF IsItinerary(parsed)
        THEN << [cb |-> "onItineraryUpdate", arg |-> parsed] >> ELSE << >>)
    \o (IF IsBudget(parsed) /\ IsApproved(approvals, BudgetKey(Get(parsed, "totalBudget")))
        THEN << [cb |-> "onBudgetUpdate", arg |-> parsed] >> ELSE << >>)
    \o (IF IsWeather(parsed)
        THEN << [cb |-> "setWeatherData", arg |-> parsed],
                [cb |-> "onWeatherUpdate", arg |-> parsed] >> ELSE << >>)
    \o (IF IsRestaurant(parsed)
        THEN << [cb |-> "onRestaurantUpdate", arg |-> parsed] >> ELSE << >>)

\* a budget that is not approved clears the slot
Dispatch_ClearUnapproved(parsed, approvals) ==
  IF ~Truthy(parsed) THEN << >>
  ELSE IF IsItinerary(parsed)
       THEN << [cb |-> "onItineraryUpdate", arg |-> parsed] >>
  ELSE IF IsBudget(parsed)
       THEN IF IsApproved(approvals, BudgetKey(Get(parsed, "totalBudget")))
            THEN << [cb |-> "onBudgetUpdate", arg |-> parsed] >>
            ELSE << [cb |-> "onBudgetUpdate", arg |-> JSNull] >>
  ELSE IF IsWeather(parsed)
       THEN << [cb |-> "setWeatherData", arg |-> parsed],
               [cb |-> "onWeatherUpdate", arg |-> parsed] >>
  ELSE IF IsRestaurant(parsed)
       THEN << [cb |-> "onRestaurantUpdate", arg |-> parsed] >>
  ELSE << >>

\* the if / else-if chain: the callbacks invoked for one parsed value
Dispatch(parsed, approvals) ==
  IF ~Truthy(parsed) THEN << >>
  ELSE IF IsItinerary(parsed)
       THEN << [cb |-> "onItineraryUpdate", arg |-> parsed] >>
  ELSE IF IsBudget(parsed)
       THEN IF IsApproved(approvals, BudgetKey(Get(parsed, "totalBudget")))
            THEN << [cb |-> "onBudgetUpdate", arg |-> parsed] >>
            ELSE << >>
  ELSE IF IsWeather(parsed)
       THEN << [cb |-> "setWeatherData", arg |-> parsed],
               [cb |-> "onWeatherUpdate", arg |-> parsed] >>
  ELSE IF IsRestaurant(parsed)
       THEN << [cb |-> "onRestaurantUpdate", arg |-> parsed] >>
  ELSE << >>

\* the body of the try block for one message; thrown = the catch was entered
TryBlock(msg, approvals) ==
  LET p == ParseResult(msg.result)
  IN  IF p.ok THEN [thrown |-> FALSE, calls |-> Dispatch(p.val, approvals)]
              ELSE [thrown |-> TRUE,  calls |-> << >>]

\* the filter testing the message type only
IsA2AResult_TypeOnly(msg) == msg.type = "ResultMessage"

\* the filter at the head of the loop body
IsA2AResult(msg) == msg.type = "ResultMessage" /\ msg.actionName = A2A

\* the loop body without the try / catch
LoopBody_NoCatch(msg, approvals) ==
  IF msg.type = "ResultMessage" /\ msg.actionName = A2A
  THEN LET r == TryBlock(msg, approvals)
       IN  [escaped |-> r.thrown, calls |-> r.calls]
  ELSE [escaped |-> FALSE, calls |-> << >>]

\* one iteration of the for loop.  escaped = an exception left the loop body
LoopBody(msg, approvals) ==
  IF IsA2AResult(msg)
  THEN LET r == TryBlock(msg, approvals)
       IN  [escaped |-> FALSE, calls |-> r.calls]
  ELSE [escaped |-> FALSE, calls |-> << >>]

Tag(calls, i) == [j \in 1..Len(calls) |->
                    [idx |-> i, cb |-> calls[j].cb, arg |-> calls[j].arg]]

\* a loop that passes over a result equal to the one before it
RECURSIVE ScanFrom_SkipRepeats(_, _, _)
ScanFrom_SkipRepeats(messages, approvals, i) ==
  IF i > Len(messages) THEN [escaped |-> FALSE, calls |-> << >>]
  ELSE LET r == IF i > 1 /\ messages[i] = messages[i - 1]
                THEN [escaped |-> FALSE, calls |-> << >>]
                ELSE LoopBody(messages[i], approvals)
           rest == ScanFrom_SkipRepeats(messages, approvals, i + 1)
       IN  [escaped |-> rest.escaped, calls |-> Tag(r.calls, i) \o rest.calls]

\* the for loop from message i on; an escaping exception ends the scan
RECURSIVE ScanFrom(_, _, _)
ScanFrom(messages, approvals, i) ==
  IF i > Len(messages) THEN [escaped |-> FALSE, calls |-> << >>]
  ELSE LET r == LoopBody(messages[i], approvals)
       IN  IF r.escaped THEN [escaped |-> TRUE, calls |-> Tag(r.calls, i)]
           ELSE LET rest == ScanFrom(messages, approvals, i + 1)
                IN  [escaped |-> rest.escaped,
                     calls |-> Tag(r.calls, i) \o rest.calls]

\* a scan of the newest message only
extractDataFromMessages_LatestOnly(messages, approvals) ==
  IF messages = << >> THEN [escaped |-> FALSE, calls |-> << >>]
  ELSE ScanFrom(messages, approvals, Len(messages))

extractDataFromMessages(messages, approvals) == ScanFrom(messages, approvals, 1)

----------------------------------------------------------------------------
(* The approval widget: request_budget_approval renderAndWaitForResponse *)

\* approvalStates[budgetKey] || { approved: false, rejected: false }
CurrentState(approvals, budgetKey) ==
  IF budgetKey \in DOMAIN approvals THEN approvals[budgetKey]
  ELSE [approved |-> FALSE, rejected |-> FALSE]

\* the disabled attribute left off the buttons
Disabled_Never(isApproved, isRejected) == FALSE

\* the buttons disabled by an approval only
Disabled_ApprovedOnly(isApproved, isRejected) == isApproved

\* disabled={isApproved || isRejected}, the same on both buttons
Disabled(isApproved, isRejected) == isApproved \/ isRejected

\* the key of the widget made of the total and the length of the breakdown
RenderApproval_KeyPerProposal(budgetArg, approvals) ==
  IF ~Truthy(budgetArg) \/ budgetArg.t \notin {"obj", "arr"}
  THEN [view |-> "loading", budgetKey |-> "", isApproved |-> FALSE,
        isRejected |-> FALSE, approveDisabled |-> TRUE, rejectDisabled |-> TRUE]
  ELSE IF ~Truthy(Get(budgetArg, "totalBudget")) \/ ~Truthy(Get(budgetArg, "breakdown"))
  THEN [view |-> "loading", budgetKey |-> "", isApproved |-> FALSE,
        isRejected |-> FALSE, approveDisabled |-> TRUE, rejectDisabled |-> TRUE]
  ELSE LET budgetKey    == BudgetKey(Get(budgetArg, "totalBudget")) \o "-"
                             \o NumToString(Get(budgetArg, "breakdown").n)
           currentState == CurrentState(approvals, budgetKey)
       IN  [view |-> "card", budgetKey |-> budgetKey,
            isApproved |-> currentState.approved,
            isRejected |-> currentState.rejected,
            approveDisabled |-> Disabled(currentState.approved, currentState.rejected),
            rejectDisabled  |-> Disabled(currentState.approved, currentState.rejected)]

\* what the widget shows for args.budgetData under the current map
RenderApproval(budgetArg, approvals) ==
  IF ~Truthy(budgetArg) \/ budgetArg.t \notin {"obj", "arr"}
  THEN [view |-> "loading", budgetKey |-> "", isApproved |-> FALSE,
        isRejected |-> FALSE, approveDisabled |-> TRUE, rejectDisabled |-> TRUE]
  ELSE IF ~Truthy(Get(budgetArg, "totalBudget")) \/ ~Truthy(Get(budgetArg, "breakdown"))
  THEN [view |-> "loading", budgetKey |-> "", isApproved |-> FALSE,
        isRejected |-> FALSE, approveDisabled |-> TRUE, rejectDisabled |-> TRUE]
  ELSE LET budgetKey    == BudgetKey(Get(budgetArg, "totalBudget"))
           currentState == CurrentState(approvals, budgetKey)
       IN  [view |-> "card", budgetKey |-> budgetKey,
            isApproved |-> currentState.approved,
            isRejected |-> currentState.rejected,
            approveDisabled |-> Disabled(currentState.approved, currentState.rejected),
            rejectDisabled  |-> Disabled(currentState.approved, currentState.rejected)]

\* { [budgetKey]: record }, the spread of prev left out
Put_NoSpread(prev, budgetKey, record) == [k \in {budgetKey} |-> record]

\* { ...prev, [budgetKey]: record }
Put(prev, budgetKey, record) ==
  [k \in DOMAIN prev \cup {budgetKey} |-> IF k = budgetKey THEN record ELSE prev[k]]

\* an approve write that flips the approved flag of an existing record
ApproveWrite_Toggle(prev, budgetKey) ==
  Put(prev, budgetKey,
      [approved |-> ~(budgetKey \in DOMAIN prev /\ prev[budgetKey].approved),
       rejected |-> FALSE])

ApproveWrite(prev, budgetKey) ==
  Put(prev, budgetKey, [approved |-> TRUE, rejected |-> FALSE])

\* the approve record pasted into the reject handler, approved left true
RejectWrite_Typo(prev, budgetKey) ==
  Put(prev, budgetKey, [approved |-> TRUE, rejected |-> TRUE])

RejectWrite(prev, budgetKey) ==
  Put(prev, budgetKey, [approved |-> FALSE, rejected |-> TRUE])

----------------------------------------------------------------------------
(* The trip requirements form: TripRequirementsForm *)

\* String.prototype.trim, for the blank the inputs here contain
RECURSIVE TrimStart(_)
TrimStart(str) ==
  IF Len(str) > 0 /\ SubSeq(str, 1, 1) = " " THEN TrimStart(SubSeq(str, 2, Len(str)))
  ELSE str

RECURSIVE TrimEnd(_)
TrimEnd(str) ==
  IF Len(str) > 0 /\ SubSeq(str, Len(str), Len(str)) = " "
  THEN TrimEnd(SubSeq(str, 1, Len(str) - 1))
  ELSE str

Trim(str) == TrimEnd(TrimStart(str))

\* args with none of the four parameters
NoArgs == [city |-> Undef, numberOfDays |-> Undef, numberOfPeople |-> Undef,
           budgetLevel |-> Undef]

\* the useState defaults; the effect has yet to run for the first render
FormInit ==
  [args |-> NoArgs, status |-> "inProgress",
   city |-> Str(""), numberOfDays |-> Num(3), numberOfPeople |-> Num(2),
   budgetLevel |-> Str("Comfort"), submitted |-> FALSE, errors |-> { },
   prefillPending |-> TRUE, responses |-> << >>]

\* if (parsedArgs && parsedArgs.x && parsedArgs.x !== x) setX(parsedArgs.x)
PrefillField(arg, current) == IF Truthy(arg) /\ arg # current THEN arg ELSE current

\* a day count checked against the lower end only
DaysOutOfRange_NoUpper(numberOfDays) == numberOfDays.n < 1

DaysOutOfRange(numberOfDays) == numberOfDays.n < 1 \/ numberOfDays.n > 7

PeopleOutOfRange(numberOfPeople) == numberOfPeople.n < 1 \/ numberOfPeople.n > 15

\* validateForm: the keys of newErrors
validateForm(f) ==
  (IF ~Truthy(Str(Trim(f.city.s))) THEN {"city"} ELSE { })
  \cup (IF DaysOutOfRange(f.numberOfDays) THEN {"numberOfDays"} ELSE { })
  \cup (IF PeopleOutOfRange(f.numberOfPeople) THEN {"numberOfPeople"} ELSE { })

\* the object handed to respond
Answer(f) ==
  [city |-> Str(Trim(f.city.s)), numberOfDays |-> f.numberOfDays,
   numberOfPeople |-> f.numberOfPeople, budgetLevel |-> f.budgetLevel]

----------------------------------------------------------------------------
(* The main panel: Home's conditional rendering and ItineraryCard *)

\* the elements of data.itinerary: the days of VItineraryDays are numbered,
\* the elements of every other itinerary are the empty object
ItineraryDays(data) ==
  IF data = VItineraryDays
  THEN << [day |-> Num(1)], [day |-> Num(2)], [day |-> Num(3)] >>
  ELSE [k \in 1..Get(data, "itinerary").n |-> [day |-> Undef]]

\* the elements of restaurantData.meals: VRestaurantDays has two entries for
\* day 2 and none for day 3
MealEntries(restaurantData) ==
  IF restaurantData = VRestaurantDays
  THEN << [day |-> Num(2), breakfast |-> Str("Cafe A"), lunch |-> Undef, dinner |-> Undef],
          [day |-> Num(1), breakfast |-> Str("Bakery"), lunch |-> Undef, dinner |-> Undef],
          [day |-> Num(2), breakfast |-> Str("Cafe B"), lunch |-> Undef, dinner |-> Undef],
          [day |-> Num(5), breakfast |-> Str("Diner"), lunch |-> Undef, dinner |-> Undef] >>
  ELSE [k \in 1..Get(restaurantData, "meals").n |->
          [day |-> Undef, breakfast |-> Undef, lunch |-> Undef, dinner |-> Undef]]

NoMeals == [breakfast |-> Null, lunch |-> Null, dinner |-> Null, found |-> FALSE]

\* Array.prototype.find with (m) => m.day === dayNumber, from index j on;
\* 0 stands for undefined
RECURSIVE Find(_, _, _)
Find(entries, dayNumber, j) ==
  IF j > Len(entries) THEN 0
  ELSE IF entries[j].day = dayNumber THEN j
  ELSE Find(entries, dayNumber, j + 1)

\* a search that keeps the last entry of the day
getMealsForDay_LastEntry(restaurantData, dayNumber) ==
  IF ~Truthy(restaurantData) THEN NoMeals
  ELSE LET entries == MealEntries(restaurantData)
           S == { j \in DOMAIN entries : entries[j].day = dayNumber }
       IN  IF S = { } THEN NoMeals
           ELSE LET dayMeals == entries[CHOOSE j \in S : \A m \in S : m <= j]
                IN  [breakfast |-> dayMeals.breakfast, lunch |-> dayMeals.lunch,
                     dinner |-> dayMeals.dinner, found |-> TRUE]

\* found = FALSE stands for the null it returns
getMealsForDay(restaurantData, dayNumber) ==
  IF ~Truthy(restaurantData) THEN NoMeals
  ELSE LET entries == MealEntries(restaurantData)
           j == Find(entries, dayNumber, 1)
       IN  IF j = 0 THEN NoMeals
           ELSE [breakfast |-> entries[j].breakfast, lunch |-> entries[j].lunch,
                 dinner |-> entries[j].dinner, found |-> TRUE]

Awaiting == "Awaiting recommendations..."

\* the meals column of every day of the card
ItineraryCard(data, restaurantData) ==
  [k \in DOMAIN ItineraryDays(data) |->
     LET restaurantMeals == getMealsForDay(restaurantData, ItineraryDays(data)[k].day)
     IN  IF restaurantMeals.found
         THEN [shows |-> "meals", breakfast |-> restaurantMeals.breakfast,
               lunch |-> restaurantMeals.lunch, dinner |-> restaurantMeals.dinner]
         ELSE [shows |-> Awaiting, breakfast |-> Null, lunch |-> Null, dinner |-> Null]]

\* what Home renders in the main panel from its four slots
HomeView(h) ==
  [emptyState      |-> ~Truthy(h.itineraryData) /\ ~Truthy(h.budgetData)
                         /\ ~Truthy(h.weatherData),
   weatherCard     |-> Truthy(h.weatherData),
   itineraryCard   |-> (Truthy(h.itineraryData) \/ Truthy(h.budgetData))
                         /\ Truthy(h.itineraryData),
   days            |-> IF Truthy(h.itineraryData)
                       THEN ItineraryCard(h.itineraryData, h.restaurantData)
                       ELSE << >>,
   budgetBreakdown |-> (Truthy(h.itineraryData) \/ Truthy(h.budgetData))
                         /\ Truthy(h.budgetData)]

----------------------------------------------------------------------------
(* Bounds *)

MaxMessages     == 2
MaxScanMessages == 2
MaxRequests     == 2

----------------------------------------------------------------------------
(* State *)

VARIABLES
  visibleMessages,  \* useCopilotChat().visibleMessages
  approvalStates,   \* ChatInner state: budget key -> {approved, rejected}
  weatherData,      \* ChatInner state set by the scan
  requests,         \* rendered request_budget_approval calls: args and status
  responses,        \* decisions handed to respond, each resolving its own call
  clicks,           \* the approve / reject actions taken so far
  pendingEffect,    \* a dependency of the effect changed since it last ran
  lastScan,         \* what the last run of the effect saw and did
  home,             \* Home state: the four display slots
  form              \* the trip requirements form: its args, state and answers

vars == << visibleMessages, approvalStates, weatherData, requests, responses,
           clicks, pendingEffect, lastScan, home, form >>

NoData == JSNull

EmptyMap == [k \in {} |-> [approved |-> FALSE, rejected |-> FALSE]]

Init ==
  /\ visibleMessages = << >>
  /\ approvalStates = EmptyMap
  /\ weatherData = NoData
  /\ requests = << >>
  /\ responses = { }
  /\ pendingEffect = TRUE
  /\ lastScan = [ran |-> FALSE, escaped |-> FALSE, calls |-> << >>,
                 messages |-> << >>, approvals |-> EmptyMap]
  /\ home = [itineraryData |-> NoData, budgetData |-> NoData,
             weatherData |-> NoData, restaurantData |-> NoData]
  /\ clicks = { }
  /\ form = FormInit

----------------------------------------------------------------------------
(* Operations *)

\* the transport appends a message to the visible stream
ReceiveMessage(msg, max) ==
  /\ Len(visibleMessages) < max
  /\ visibleMessages' = Append(visibleMessages, msg)
  /\ pendingEffect' = TRUE
  /\ UNCHANGED << approvalStates, weatherData, requests, responses, clicks,
                  lastScan, home, form >>

\* the orchestrator calls request_budget_approval: the widget is rendered
\* from the arguments, either while the call is still in progress and
\* respond is not bound yet, or once it executes
RequestBudgetApproval(budgetArg, status) ==
  /\ Len(requests) < MaxRequests
  /\ requests' = Append(requests, [budgetData |-> budgetArg, status |-> status])
  /\ UNCHANGED << visibleMessages, approvalStates, weatherData, responses, clicks,
                  pendingEffect, lastScan, home, form >>

\* the call of request i starts executing: its render is given respond
BindRespond(i) ==
  /\ requests[i].status = "inProgress"
  /\ requests' = [requests EXCEPT ![i].status = "executing"]
  /\ UNCHANGED << visibleMessages, approvalStates, weatherData, responses, clicks,
                  pendingEffect, lastScan, home, form >>

\* respond?.({ approved, message }) of request i: respond is defined only
\* while the call is executing
Respond(i, approved, message) ==
  IF requests[i].status = "executing"
  THEN /\ responses' = responses \cup
                         { [request |-> i, approved |-> approved, message |-> message] }
       /\ requests' = [requests EXCEPT ![i].status = "complete"]
  ELSE UNCHANGED << responses, requests >>

\* an approve handler whose write does not re-run the effect
Approve_NoRescan(i) ==
  LET widget == RenderApproval(requests[i].budgetData, approvalStates)
  IN  /\ widget.view = "card"
      /\ ~widget.approveDisabled
      /\ approvalStates' = ApproveWrite(approvalStates, widget.budgetKey)
      /\ Respond(i, TRUE, "Budget approved by user")
      /\ clicks' = clicks \cup { [request |-> i, approved |-> TRUE] }
      /\ UNCHANGED << visibleMessages, weatherData, pendingEffect, lastScan, home, form >>

\* onClick of the approve button of widget i
Approve(i) ==
  LET widget == RenderApproval(requests[i].budgetData, approvalStates)
  IN  /\ widget.view = "card"
      /\ ~widget.approveDisabled
      /\ approvalStates' = ApproveWrite(approvalStates, widget.budgetKey)
      /\ Respond(i, TRUE, "Budget approved by user")
      /\ clicks' = clicks \cup { [request |-> i, approved |-> TRUE] }
      /\ pendingEffect' = TRUE
      /\ UNCHANGED << visibleMessages, weatherData, lastScan, home, form >>

\* onClick of the reject button of widget i
Reject(i) ==
  LET widget == RenderApproval(requests[i].budgetData, approvalStates)
  IN  /\ widget.view = "card"
      /\ ~widget.rejectDisabled
      /\ approvalStates' = RejectWrite(approvalStates, widget.budgetKey)
      /\ Respond(i, FALSE, "Budget rejected by user")
      /\ clicks' = clicks \cup { [request |-> i, approved |-> FALSE] }
      /\ pendingEffect' = TRUE
      /\ UNCHANGED << visibleMessages, weatherData, lastScan, home, form >>

\* setters that keep a slot once it is filled
RECURSIVE ApplyHome_FirstWins(_, _)
ApplyHome_FirstWins(h, calls) ==
  IF calls = << >> THEN h
  ELSE LET c == Head(calls)
           h1 == CASE c.cb = "onItineraryUpdate" /\ h.itineraryData = NoData
                        -> [h EXCEPT !.itineraryData = c.arg]
                   [] c.cb = "onBudgetUpdate" /\ h.budgetData = NoData
                        -> [h EXCEPT !.budgetData = c.arg]
                   [] c.cb = "onWeatherUpdate" /\ h.weatherData = NoData
                        -> [h EXCEPT !.weatherData = c.arg]
                   [] c.cb = "onRestaurantUpdate" /\ h.restaurantData = NoData
                        -> [h EXCEPT !.restaurantData = c.arg]
                   [] OTHER -> h
       IN  ApplyHome_FirstWins(h1, Tail(calls))

\* the callbacks of Home are its state setters; setWeatherData is ChatInner's
RECURSIVE ApplyHome(_, _)
ApplyHome(h, calls) ==
  IF calls = << >> THEN h
  ELSE LET c == Head(calls)
           h1 == CASE c.cb = "onItineraryUpdate"  -> [h EXCEPT !.itineraryData = c.arg]
                   [] c.cb = "onBudgetUpdate"     -> [h EXCEPT !.budgetData = c.arg]
                   [] c.cb = "onWeatherUpdate"    -> [h EXCEPT !.weatherData = c.arg]
                   [] c.cb = "onRestaurantUpdate" -> [h EXCEPT !.restaurantData = c.arg]
                   [] OTHER                       -> h
       IN  ApplyHome(h1, Tail(calls))

RECURSIVE ApplyLocal(_, _)
ApplyLocal(w, calls) ==
  IF calls = << >> THEN w
  ELSE ApplyLocal(IF Head(calls).cb = "setWeatherData" THEN Head(calls).arg ELSE w,
                  Tail(calls))

\* an effect that uses up the approvals it has read
RunEffect_ConsumesApprovals ==
  /\ pendingEffect
  /\ LET scan == extractDataFromMessages(visibleMessages, approvalStates)
     IN  /\ lastScan' = [ran |-> TRUE, escaped |-> scan.escaped, calls |-> scan.calls,
                         messages |-> visibleMessages, approvals |-> approvalStates]
         /\ home' = ApplyHome(home, scan.calls)
         /\ weatherData' = ApplyLocal(weatherData, scan.calls)
  /\ pendingEffect' = FALSE
  /\ approvalStates' = EmptyMap
  /\ UNCHANGED << visibleMessages, requests, responses, clicks, form >>

\* the effect runs after a render in which one of its dependencies changed
RunEffect ==
  /\ pendingEffect
  /\ LET scan == extractDataFromMessages(visibleMessages, approvalStates)
     IN  /\ lastScan' = [ran |-> TRUE, escaped |-> scan.escaped, calls |-> scan.calls,
                         messages |-> visibleMessages, approvals |-> approvalStates]
         /\ home' = ApplyHome(home, scan.calls)
         /\ weatherData' = ApplyLocal(weatherData, scan.calls)
  /\ pendingEffect' = FALSE
  /\ UNCHANGED << visibleMessages, approvalStates, requests, responses, clicks, form >>

\* everything but the form
chatVars == << visibleMessages, approvalStates, weatherData, requests, responses,
              clicks, pendingEffect, lastScan, home >>

\* the orchestrator's args for gather_trip_requirements change
SetArgs(args) ==
  /\ args # form.args
  /\ form' = [form EXCEPT !.args = args, !.prefillPending = TRUE]
  /\ UNCHANGED chatVars

\* the call starts executing: the form is given respond
FormBindRespond ==
  /\ form.status = "inProgress"
  /\ form' = [form EXCEPT !.status = "executing"]
  /\ UNCHANGED chatVars

\* the pre-fill effect, run after a render in which one of the four args changed
Prefill ==
  /\ form.prefillPending
  /\ form' = [form EXCEPT
                !.city           = PrefillField(form.args.city, form.city),
                !.numberOfDays   = PrefillField(form.args.numberOfDays, form.numberOfDays),
                !.numberOfPeople = PrefillField(form.args.numberOfPeople, form.numberOfPeople),
                !.budgetLevel    = PrefillField(form.args.budgetLevel, form.budgetLevel),
                !.prefillPending = FALSE]
  /\ UNCHANGED chatVars

\* onChange of the city input
TypeCity(text) ==
  /\ ~form.submitted
  /\ form' = [form EXCEPT !.city = Str(text)]
  /\ UNCHANGED chatVars

\* onChange of the two range inputs
SlideDays(d) ==
  /\ ~form.submitted
  /\ form' = [form EXCEPT !.numberOfDays = Num(d)]
  /\ UNCHANGED chatVars

SlidePeople(p) ==
  /\ ~form.submitted
  /\ form' = [form EXCEPT !.numberOfPeople = Num(p)]
  /\ UNCHANGED chatVars

\* onClick of one of the three budget level buttons
SelectBudgetLevel(level) ==
  /\ ~form.submitted
  /\ form' = [form EXCEPT !.budgetLevel = Str(level)]
  /\ UNCHANGED chatVars

\* a submit button that is also part of the success view
Submit_AlwaysShown ==
  /\ LET newErrors == validateForm(form)
     IN  IF newErrors # { }
         THEN form' = [form EXCEPT !.errors = newErrors]
         ELSE IF form.status = "executing"
         THEN form' = [form EXCEPT !.errors = { }, !.submitted = TRUE,
                                   !.responses = Append(@, Answer(form)),
                                   !.status = "complete"]
         ELSE form' = [form EXCEPT !.errors = { }, !.submitted = TRUE]
  /\ UNCHANGED chatVars

\* handleSubmit, on the submit button of the form view
Submit ==
  /\ ~form.submitted
  /\ LET newErrors == validateForm(form)
     IN  IF newErrors # { }
         THEN form' = [form EXCEPT !.errors = newErrors]
         ELSE IF form.status = "executing"
         THEN form' = [form EXCEPT !.errors = { }, !.submitted = TRUE,
                                   !.responses = Append(@, Answer(form)),
                                   !.status = "complete"]
         ELSE form' = [form EXCEPT !.errors = { }, !.submitted = TRUE]
  /\ UNCHANGED chatVars

----------------------------------------------------------------------------
(* Specifications *)

\* a session: budget results under two keys, a widget per approval request
SessionMessages ==
  { ResultMessage(A2A, StringResult(Prefix \o TextOf(VBudget1500))),
    ResultMessage(A2A, ValueResult(VBudget1500Alt)),
    ResultMessage(A2A, StringResult(TextOf(VBudget2000))),
    ResultMessage(A2A, StringResult(Prefix \o TextOf(VWeather))) }

SessionArgs == { VBudget1500, VBudget1500Alt, VBudget2000, JSUndefined }

Next ==
  \/ \E msg \in SessionMessages : ReceiveMessage(msg, MaxMessages)
  \/ \E budgetArg \in SessionArgs : RequestBudgetApproval(budgetArg, "executing")
  \/ \E i \in DOMAIN requests : Approve(i)
  \/ \E i \in DOMAIN requests : Reject(i)
  \/ RunEffect

Spec == Init /\ [][Next]_vars

\* classification: the payload shapes in the encodings a result can take,
\* scanned while one approval request for the 1500 budget is on screen
ClassifyValues ==
  { VItinerary, VItineraryEmpty, VItineraryText, VBudget1500, VBudget2000,
    VBudgetText, VBudgetZero, VWeather, VRestaurant, VItinBudget,
    VBudgetWeather, VWeatherMeals, VUnknown, JSNull, Prim(Num(7)),
    Prim(Str("hi")) }

ClassifyMessages ==
  { ResultMessage(A2A, StringResult(TextOf(v))) : v \in ClassifyValues }
  \cup { ResultMessage(A2A, StringResult(Prefix \o TextOf(v))) :
           v \in {VBudget1500, VWeather} }
  \cup { ResultMessage(A2A, ValueResult(v)) : v \in {VBudget1500, JSUndefined} }
  \cup { ResultMessage(A2A, StringResult(text)) : text \in MalformedTexts }
  \cup { ResultMessage("request_budget_approval", ValueResult(VBudget1500)),
         ResultMessage("gather_trip_requirements", StringResult(TextOf(VWeather))),
         OtherMessage("ActionExecutionMessage", A2A, StringResult(TextOf(VItinerary))) }

InitClassify ==
  /\ Init!1 /\ Init!2 /\ Init!3 /\ Init!5 /\ Init!6 /\ Init!7 /\ Init!8 /\ Init!9 /\ Init!10
  /\ requests = << [budgetData |-> VBudget1500, status |-> "executing"] >>

NextClassify ==
  \/ \E msg \in ClassifyMessages : ReceiveMessage(msg, MaxScanMessages)
  \/ \E i \in DOMAIN requests : Approve(i)
  \/ \E i \in DOMAIN requests : Reject(i)
  \/ RunEffect

SpecClassify == InitClassify /\ [][NextClassify]_vars

\* pairs of results: every payload in its three encodings, scanned while one
\* approval request is on screen
PairObjects ==
  { VItinerary, VItineraryEmpty, VItineraryText, VBudget1500, VBudget1500Alt,
    VBudget2000, VBudgetText, VBudgetZero, VBudgetZeroText, VBudgetNoTotal,
    VBudgetNullTotal, VWeather, VRestaurant, VRestaurantEmpty, VItinBudget,
    VItineraryNoDest,
    VBudgetWeather, VWeatherMeals, VUnknown, Prim(Arr(0)) }

PairScalars == { JSNull, Prim(Num(7)), Prim(Num(0)), Prim(Bool(TRUE)) }

PairMessages ==
  { ResultMessage(A2A, StringResult(TextOf(v))) : v \in PairObjects \cup PairScalars }
  \cup { ResultMessage(A2A, StringResult(Prefix \o TextOf(v))) :
           v \in PairObjects \cup PairScalars }
  \cup { ResultMessage(A2A, ValueResult(v)) : v \in PairObjects \cup {JSNull, JSUndefined} }
  \cup { ResultMessage(A2A, StringResult(text)) : text \in MalformedTexts }
  \cup { ResultMessage(A2A, StringResult(Prefix \o Prefix \o TextOf(VWeather))),
         ResultMessage("request_budget_approval", ValueResult(VBudget1500)),
         OtherMessage("TextMessage", "", StringResult(TextOf(VWeather))) }

PairArgs == { VBudget1500, VBudget2000, VBudgetZeroText, VBudgetZero }

InitPairs ==
  /\ Init!2 /\ Init!3 /\ Init!5 /\ Init!6 /\ Init!7 /\ Init!8 /\ Init!9 /\ Init!10
  /\ visibleMessages \in { << a, b >> : a \in PairMessages, b \in PairMessages }
  /\ requests \in { << [budgetData |-> arg, status |-> "executing"] >> : arg \in PairArgs }

NextPairs ==
  \/ \E i \in DOMAIN requests : Approve(i)
  \/ \E i \in DOMAIN requests : Reject(i)
  \/ RunEffect

SpecPairs == InitPairs /\ [][NextPairs]_vars

\* the life of an approval call: its widget is on screen from the moment
\* the call is in progress, and is given respond when the call executes
RenderMessages ==
  { ResultMessage(A2A, StringResult(Prefix \o TextOf(VBudget1500))),
    ResultMessage(A2A, ValueResult(VBudget2000)) }

RenderArgs == { VBudget1500, VBudget2000 }

NextRender ==
  \/ \E msg \in RenderMessages : ReceiveMessage(msg, MaxMessages)
  \/ \E budgetArg \in RenderArgs : RequestBudgetApproval(budgetArg, "inProgress")
  \/ \E i \in DOMAIN requests : BindRespond(i)
  \/ \E i \in DOMAIN requests : Approve(i)
  \/ \E i \in DOMAIN requests : Reject(i)
  \/ RunEffect

SpecRender == Init /\ [][NextRender]_vars

\* the widgets alone: approval calls of a session and the decisions on them,
\* with no result in the stream
NextWidgets ==
  \/ \E budgetArg \in SessionArgs : \E status \in {"inProgress", "executing"} :
       RequestBudgetApproval(budgetArg, status)
  \/ \E i \in DOMAIN requests : BindRespond(i)
  \/ \E i \in DOMAIN requests : Approve(i)
  \/ \E i \in DOMAIN requests : Reject(i)
  \/ RunEffect

SpecWidgets == Init /\ [][NextWidgets]_vars

\* the form: what the orchestrator extracts and what the user enters
FormArgs ==
  { [city |-> Str("Paris"), numberOfDays |-> Num(5), numberOfPeople |-> Num(4),
     budgetLevel |-> Str("Premium")],
    [city |-> Str("  "), numberOfDays |-> Num(10), numberOfPeople |-> Num(16),
     budgetLevel |-> Str("Luxury")],
    [city |-> Undef, numberOfDays |-> Num(-1), numberOfPeople |-> Num(0),
     budgetLevel |-> Undef],
    [city |-> Str("Paris"), numberOfDays |-> Num(5), numberOfPeople |-> Undef,
     budgetLevel |-> Undef] }

Cities == { "", " Rome " }

BudgetLevels == { "Economy", "Comfort", "Premium" }

NextForm ==
  \/ \E args \in FormArgs : SetArgs(args)
  \/ FormBindRespond
  \/ Prefill
  \/ \E text \in Cities : TypeCity(text)
  \/ \E d \in {1, 7} : SlideDays(d)
  \/ \E p \in {1, 15} : SlidePeople(p)
  \/ \E level \in BudgetLevels : SelectBudgetLevel(level)
  \/ Submit

SpecForm == Init /\ [][NextForm]_vars

\* the display slots: two results of every variant arrive in any order
\* while the approval requests of both budgets are on screen
SlotMessages ==
  { ResultMessage(A2A, StringResult(Prefix \o TextOf(v))) :
      v \in {VItinerary, VBudget1500, VWeather, VRestaurant} }
  \cup { ResultMessage(A2A, ValueResult(v)) :
           v \in {VItineraryEmpty, VBudget2000, VWeatherMeals, VRestaurantEmpty} }
  \cup { ResultMessage(A2A, StringResult(TextOf(JSNull))),
         ResultMessage(A2A, ValueResult(JSNull)) }
  \cup { ResultMessage(A2A, StringResult(Prefix \o TextOf(VItineraryDays))),
         ResultMessage(A2A, ValueResult(VRestaurantDays)) }

InitSlots ==
  /\ Init!1 /\ Init!2 /\ Init!3 /\ Init!5 /\ Init!6 /\ Init!7 /\ Init!8 /\ Init!9 /\ Init!10
  /\ requests = << [budgetData |-> VBudget1500, status |-> "executing"],
                   [budgetData |-> VBudget2000, status |-> "executing"] >>

NextSlots ==
  \/ \E msg \in SlotMessages : ReceiveMessage(msg, MaxMessages)
  \/ \E i \in DOMAIN requests : Approve(i)
  \/ \E i \in DOMAIN requests : Reject(i)
  \/ RunEffect

SpecSlots == InitSlots /\ [][NextSlots]_vars

\* the step in which a pending effect is run; only RunEffect takes it
EffectFlushed == pendingEffect /\ pendingEffect' = FALSE

\* the effect is run after every render in which a dependency changed: an
\* effect that is pending does not stay pending for ever
SpecRenderFair == SpecRender /\ WF_pendingEffect(EffectFlushed)

----------------------------------------------------------------------------
(* Vocabulary of the properties *)

\* the forms in which a result can carry the payload v
Encodings(v) ==
  { ResultMessage(A2A, StringResult(TextOf(v))),
    ResultMessage(A2A, StringResult(Prefix \o TextOf(v))),
    ResultMessage(A2A, ValueResult(v)) }

\* the approval key each budget payload is filed under
ExpectedKey(v) ==
  CASE v \in {VBudget1500, VBudget1500Alt, VBudgetText, VBudgetWeather, VItinBudget}
               -> "budget-1500"
    [] v = VBudget2000 -> "budget-2000"
    [] v = VBudgetZeroText -> "budget-0"
    [] OTHER   -> "budget-?"

CallsAt(calls, i) == SelectSeq(calls, LAMBDA c : c.idx = i)

\* the calls of the four update callbacks of the props
UpdateCalls(calls) == SelectSeq(calls, LAMBDA c : c.cb # "setWeatherData")

Approved(approvals, k) == k \in DOMAIN approvals /\ approvals[k].approved
Rejected(approvals, k) == k \in DOMAIN approvals /\ approvals[k].rejected

\* keys on which an approve action was taken
ApproveActionKeys ==
  { ExpectedKey(requests[c.request].budgetData) : c \in { d \in clicks : d.approved } }

SessionBudgets == { VBudget1500, VBudget1500Alt, VBudget2000 }

----------------------------------------------------------------------------
(* C1: onBudgetUpdate is invoked with a budget B only in a scan that finds  *)
(* the record of key budget-<B.totalBudget> approved; a budget whose key    *)
(* never received an approve action is never forwarded, neither by the     *)
(* last scan nor by any earlier one (the budget slot of the display).      *)
C1_BudgetOnlyWhenApproved ==
  /\ \A j \in DOMAIN lastScan.calls :
       LET c == lastScan.calls[j]
       IN  c.cb = "onBudgetUpdate" =>
             /\ Approved(lastScan.approvals, ExpectedKey(c.arg))
             /\ ExpectedKey(c.arg) \in ApproveActionKeys
  /\ home.budgetData # NoData => ExpectedKey(home.budgetData) \in ApproveActionKeys

\* a scan forwarded an approved budget and withheld one with no approve action
C1_Witness ==
  /\ lastScan.ran
  /\ \E j \in DOMAIN lastScan.calls : lastScan.calls[j].cb = "onBudgetUpdate"
  /\ \E i \in DOMAIN lastScan.messages : \E v \in SessionBudgets :
       /\ lastScan.messages[i] \in Encodings(v)
       /\ ExpectedKey(v) \notin ApproveActionKeys
       /\ CallsAt(lastScan.calls, i) = << >>

(* C2: once the approve action is recorded for the key of a budget B       *)
(* carried by a result of the stream, the re-scan it triggers invokes      *)
(* onBudgetUpdate with the whole payload B, exactly once for that event.   *)
C2_ApprovedBudgetForwarded ==
  ~pendingEffect =>
    \A i \in DOMAIN visibleMessages : \A v \in SessionBudgets :
      ( /\ visibleMessages[i] \in Encodings(v)
        /\ Approved(approvalStates, ExpectedKey(v)) )
      => CallsAt(lastScan.calls, i) = << [idx |-> i, cb |-> "onBudgetUpdate", arg |-> v] >>

\* the 1500 budget arrived as a prefixed string, was approved and re-scanned
C2_Witness ==
  /\ ~pendingEffect
  /\ Approved(approvalStates, "budget-1500")
  /\ \E i \in DOMAIN visibleMessages :
       /\ visibleMessages[i] = ResultMessage(A2A, StringResult(Prefix \o TextOf(VBudget1500)))
       /\ home.budgetData = VBudget1500

(* C3: a budget whose key has a rejected record is not forwarded: no scan   *)
(* invokes onBudgetUpdate for that key and the budget slot of the display  *)
(* never holds a budget of that key.                                       *)
C3_RejectedNeverForwarded ==
  \A k \in DOMAIN approvalStates :
    approvalStates[k].rejected =>
      /\ \A j \in DOMAIN lastScan.calls :
           lastScan.calls[j].cb = "onBudgetUpdate" => ExpectedKey(lastScan.calls[j].arg) # k
      /\ home.budgetData # NoData => ExpectedKey(home.budgetData) # k

\* a rejected budget is in the stream and a scan ran after the rejection
C3_Witness ==
  /\ ~pendingEffect
  /\ \E i \in DOMAIN visibleMessages : \E v \in SessionBudgets :
       /\ visibleMessages[i] \in Encodings(v)
       /\ Rejected(approvalStates, ExpectedKey(v))
       /\ Rejected(lastScan.approvals, ExpectedKey(v))

(* C4: no record is approved and rejected at once, and a key without a      *)
(* record reads as not approved and not rejected, in the widget and in the *)
(* budget check of the scan.                                               *)
C4_RecordExclusive ==
  /\ \A k \in DOMAIN approvalStates :
       ~(approvalStates[k].approved /\ approvalStates[k].rejected)
  /\ \A v \in SessionBudgets :
       ExpectedKey(v) \notin DOMAIN approvalStates =>
         /\ RenderApproval(v, approvalStates).isApproved = FALSE
         /\ RenderApproval(v, approvalStates).isRejected = FALSE
         /\ Dispatch(v, approvalStates) = << >>

\* one key approved, one rejected
C4_Witness ==
  /\ \E k \in DOMAIN approvalStates : approvalStates[k].approved
  /\ \E k \in DOMAIN approvalStates : approvalStates[k].rejected

(* C5: a record, once written, is Approved or Rejected and never changes    *)
(* again, whichever widgets the later actions come from.                   *)
C5_DecisionTerminal ==
  [][ \A k \in DOMAIN approvalStates :
        /\ k \in DOMAIN approvalStates'
        /\ approvalStates'[k] = approvalStates[k]
        /\ approvalStates[k].approved # approvalStates[k].rejected ]_vars

\* two widgets share a key; the decision came from the second one
C5_Witness ==
  /\ Len(requests) = 2
  /\ ExpectedKey(requests[1].budgetData) = ExpectedKey(requests[2].budgetData)
  /\ requests[1].status = "executing" /\ requests[2].status = "complete"
  /\ ExpectedKey(requests[1].budgetData) \in DOMAIN approvalStates

----------------------------------------------------------------------------
(* Properties of the classification, checked under SpecClassify *)

ItineraryPayloads  == { VItinerary, VItineraryEmpty, VItinBudget }
WeatherPayloads    == { VWeather, VWeatherMeals }
RestaurantPayloads == { VRestaurant }
BypassPayloads     == ItineraryPayloads \cup WeatherPayloads \cup RestaurantPayloads

\* payloads that parse and have none of the four shapes
UnrecognizedPayloads ==
  { VUnknown, VItineraryText, VBudgetZero, JSNull, Prim(Num(7)), Prim(Str("hi")) }

MalformedResults ==
  { StringResult("{not json"),
    StringResult(Prefix \o "{not json"),
    StringResult("x" \o Prefix \o TextOf(VWeather)) }

BypassCallback(v) ==
  IF v \in ItineraryPayloads THEN "onItineraryUpdate"
  ELSE IF v \in WeatherPayloads THEN "onWeatherUpdate"
  ELSE "onRestaurantUpdate"

\* the callbacks and arguments of a scan, without the message positions
Values(calls) == [j \in 1..Len(calls) |-> [cb |-> calls[j].cb, arg |-> calls[j].arg]]

Processed(msg) == msg.type = "ResultMessage" /\ msg.actionName = "send_message_to_a2a_agent"

IsMalformed(msg) == Processed(msg) /\ msg.result \in MalformedResults

(* C6: itinerary, weather and restaurant results are forwarded by every     *)
(* scan, with the parsed payload, whatever the approval-state map holds.   *)
C6_OthersBypassGate ==
  lastScan.ran =>
    \A i \in DOMAIN lastScan.messages : \A v \in BypassPayloads :
      lastScan.messages[i] \in Encodings(v) =>
        UpdateCalls(CallsAt(lastScan.calls, i))
          = << [idx |-> i, cb |-> BypassCallback(v), arg |-> v] >>

\* weather was forwarded by a scan that saw no approved record
C6_Witness ==
  /\ lastScan.ran
  /\ \A k \in DOMAIN lastScan.approvals : ~lastScan.approvals[k].approved
  /\ \E i \in DOMAIN lastScan.messages :
       /\ lastScan.messages[i] \in Encodings(VWeather)
       /\ home.weatherData = VWeather

(* C7: the shapes are tried in the order itinerary, budget, weather,        *)
(* restaurant and the first that matches decides: an itinerary that also   *)
(* has the budget fields is forwarded as itinerary only, also when its key *)
(* is approved; weather with meals is weather; a budget with a forecast is *)
(* a budget, forwarded if approved and dropped otherwise.                  *)
C7_PriorityOrder ==
  lastScan.ran =>
    \A i \in DOMAIN lastScan.messages :
      LET here == UpdateCalls(CallsAt(lastScan.calls, i))
          msg  == lastScan.messages[i]
      IN  /\ msg \in Encodings(VItinBudget) =>
               here = << [idx |-> i, cb |-> "onItineraryUpdate", arg |-> VItinBudget] >>
          /\ msg \in Encodings(VWeatherMeals) =>
               here = << [idx |-> i, cb |-> "onWeatherUpdate", arg |-> VWeatherMeals] >>
          /\ msg \in Encodings(VBudgetWeather) =>
               here = IF Approved(lastScan.approvals, "budget-1500")
                      THEN << [idx |-> i, cb |-> "onBudgetUpdate", arg |-> VBudgetWeather] >>
                      ELSE << >>

\* the itinerary with budget fields was scanned while budget-1500 was approved
C7_Witness ==
  /\ lastScan.ran
  /\ Approved(lastScan.approvals, "budget-1500")
  /\ \E i \in DOMAIN lastScan.messages : lastScan.messages[i] \in Encodings(VItinBudget)
  /\ home.itineraryData = VItinBudget
  /\ home.budgetData = NoData

(* C8: a scan invokes at most one update callback per message, and a        *)
(* payload that parses but has none of the four shapes invokes none and    *)
(* raises no error.                                                        *)
C8_AtMostOneCallback ==
  lastScan.ran =>
    /\ ~lastScan.escaped
    /\ \A i \in DOMAIN lastScan.messages :
         /\ Len(UpdateCalls(CallsAt(lastScan.calls, i))) <= 1
         /\ \A v \in UnrecognizedPayloads :
              lastScan.messages[i] \in Encodings(v) => CallsAt(lastScan.calls, i) = << >>
         /\ lastScan.messages[i] = ResultMessage(A2A, ValueResult(JSUndefined))
              => CallsAt(lastScan.calls, i) = << >>

\* a scan of a payload with two shapes and of one with none
C8_Witness ==
  /\ lastScan.ran
  /\ \E i \in DOMAIN lastScan.messages :
       /\ lastScan.messages[i] \in Encodings(VWeatherMeals)
       /\ Len(UpdateCalls(CallsAt(lastScan.calls, i))) = 1
  /\ \E i \in DOMAIN lastScan.messages : \E v \in UnrecognizedPayloads :
       lastScan.messages[i] \in Encodings(v)

(* C9: a message that is not a ResultMessage of send_message_to_a2a_agent   *)
(* invokes no callback, and the scan does what it does on the stream       *)
(* without such messages.                                                  *)
C9_OnlyA2AResults ==
  lastScan.ran =>
    /\ \A i \in DOMAIN lastScan.messages :
         ~Processed(lastScan.messages[i]) => CallsAt(lastScan.calls, i) = << >>
    /\ Values(lastScan.calls)
         = Values(extractDataFromMessages(SelectSeq(lastScan.messages, Processed),
                                          lastScan.approvals).calls)

\* the result of request_budget_approval carries the approved 1500 budget
C9_Witness ==
  /\ lastScan.ran
  /\ Approved(lastScan.approvals, "budget-1500")
  /\ \E i \in DOMAIN lastScan.messages :
       /\ lastScan.messages[i] = ResultMessage("request_budget_approval", ValueResult(VBudget1500))
       /\ CallsAt(lastScan.calls, i) = << >>
  /\ home.budgetData = NoData

(* C10: a result that is not valid JSON after the prefix is stripped        *)
(* invokes no callback, no exception leaves the scan, and the other        *)
(* messages are processed as if the malformed ones were not in the stream. *)
C10_MalformedSkipped ==
  lastScan.ran =>
    /\ ~lastScan.escaped
    /\ \A i \in DOMAIN lastScan.messages :
         IsMalformed(lastScan.messages[i]) => CallsAt(lastScan.calls, i) = << >>
    /\ Values(lastScan.calls)
         = Values(extractDataFromMessages(
                    SelectSeq(lastScan.messages, LAMBDA m : ~IsMalformed(m)),
                    lastScan.approvals).calls)

\* a malformed result came first and the message after it was forwarded
C10_Witness ==
  /\ lastScan.ran
  /\ Len(lastScan.messages) >= 2
  /\ IsMalformed(lastScan.messages[1])
  /\ \E j \in DOMAIN lastScan.calls : lastScan.calls[j].idx = 2

----------------------------------------------------------------------------
(* Properties of the encodings, checked under SpecPairs *)

\* the results that carry the JSON value v: its text, its text after the
\* prefix, and, for an object or an array, the parsed value itself
Carriers(v) ==
  { ResultMessage(A2A, StringResult(TextOf(v))),
    ResultMessage(A2A, StringResult(Prefix \o TextOf(v))) }
  \cup (IF v.t \in {"obj", "arr"} THEN { ResultMessage(A2A, ValueResult(v)) } ELSE { })

\* results in which the prefix is not, or not only, at the start
MisplacedPrefix ==
  { ResultMessage(A2A, StringResult("x" \o Prefix \o TextOf(VWeather))),
    ResultMessage(A2A, StringResult(Prefix \o Prefix \o TextOf(VWeather))) }

(* C11: a JSON text with the prefix, the same text without it and the       *)
(* parsed object invoke the same callbacks with the same argument, the     *)
(* parsed value; a prefix that is not at the very start is not stripped,   *)
(* and one prefix only is stripped.                                        *)
C11_PrefixTransparent ==
  lastScan.ran =>
    \A i \in DOMAIN lastScan.messages :
      /\ \A v \in PairObjects \cup PairScalars :
           lastScan.messages[i] \in Carriers(v) =>
             /\ \A n \in DOMAIN lastScan.calls :
                  lastScan.calls[n].idx = i => lastScan.calls[n].arg = v
             /\ \A j \in DOMAIN lastScan.messages :
                  lastScan.messages[j] \in Carriers(v) =>
                    Values(CallsAt(lastScan.calls, i)) = Values(CallsAt(lastScan.calls, j))
      /\ lastScan.messages[i] \in MisplacedPrefix => CallsAt(lastScan.calls, i) = << >>

\* the approved 1500 budget as a prefixed string and as an object, both forwarded
C11_Witness ==
  /\ lastScan.ran
  /\ lastScan.messages = << ResultMessage(A2A, StringResult(Prefix \o TextOf(VBudget1500))),
                            ResultMessage(A2A, ValueResult(VBudget1500)) >>
  /\ Len(lastScan.calls) = 2
  /\ lastScan.calls[1].arg = VBudget1500 /\ lastScan.calls[2].arg = VBudget1500

----------------------------------------------------------------------------
(* Properties of the approval key, checked under Spec *)

\* two proposals with the same total and different breakdown and currency
SameTotal == { VBudget1500, VBudget1500Alt }

\* the decisions taken on the widget of request i
DecisionsOf(i) == { c.approved : c \in { d \in clicks : d.request = i } }

(* C12: proposals with the same totalBudget share one record: a decision    *)
(* taken on the widget of one shows on the widget of the other, with both  *)
(* actions disabled, and an approval of one forwards the other.            *)
C12_SameTotalSharesRecord ==
  \A i \in DOMAIN requests : \A j \in DOMAIN requests :
    ( /\ requests[i].budgetData \in SameTotal
      /\ requests[j].budgetData \in SameTotal
      /\ DecisionsOf(i) # { } )
    => LET other == RenderApproval(requests[j].budgetData, approvalStates)
       IN  /\ other.view = "card"
           /\ other.isApproved = (TRUE \in DecisionsOf(i))
           /\ other.isRejected = (FALSE \in DecisionsOf(i))
           /\ other.approveDisabled /\ other.rejectDisabled
           /\ (~pendingEffect /\ TRUE \in DecisionsOf(i)) =>
                \A n \in DOMAIN visibleMessages : \A v \in SameTotal :
                  visibleMessages[n] \in Encodings(v) =>
                    CallsAt(lastScan.calls, n)
                      = << [idx |-> n, cb |-> "onBudgetUpdate", arg |-> v] >>

\* the first proposal was approved; the second, never decided, is displayed
C12_Witness ==
  /\ Len(requests) = 2
  /\ requests[1].budgetData = VBudget1500 /\ DecisionsOf(1) = { TRUE }
  /\ requests[2].budgetData = VBudget1500Alt /\ requests[2].status = "executing"
  /\ ~pendingEffect
  /\ home.budgetData = VBudget1500Alt

\* the decisions sent from the widgets of the proposals with the total of v
DecisionsOn(v) ==
  UNION { DecisionsOf(i) :
            i \in { n \in DOMAIN requests :
                      ExpectedKey(requests[n].budgetData) = ExpectedKey(v) } }

(* C13: proposals with different totals have independent records: what the *)
(* widget of a proposal shows, whether its actions are enabled and whether *)
(* it is forwarded depend on the decisions taken for its own total only;   *)
(* with none taken it is Pending with both actions enabled, whatever was   *)
(* decided for another total.                                              *)
C13_DifferentTotalsIndependent ==
  \A v \in SessionBudgets :
    LET widget == RenderApproval(v, approvalStates)
    IN  /\ widget.isApproved = (TRUE \in DecisionsOn(v))
        /\ widget.isRejected = (FALSE \in DecisionsOn(v))
        /\ widget.approveDisabled = (DecisionsOn(v) # { })
        /\ widget.rejectDisabled = (DecisionsOn(v) # { })
        /\ ~pendingEffect =>
             \A n \in DOMAIN visibleMessages :
               visibleMessages[n] \in Encodings(v) =>
                 ( CallsAt(lastScan.calls, n) # << >>  <=>  TRUE \in DecisionsOn(v) )

\* 1500 was rejected; the revised 2000 proposal was then approved and displayed
C13_Witness ==
  /\ Rejected(approvalStates, "budget-1500")
  /\ Len(requests) = 2
  /\ requests[2].budgetData = VBudget2000
  /\ responses = { [request |-> 1, approved |-> FALSE, message |-> "Budget rejected by user"],
                   [request |-> 2, approved |-> TRUE, message |-> "Budget approved by user"] }
  /\ home.budgetData = VBudget2000

(* C14: a rendered card offers the approve and the reject action; both are  *)
(* disabled, and cannot be taken, once the key of its budget has a record, *)
(* and both are enabled, and can be taken, while it has none.              *)
C14_ActionsDisabledOnceDecided ==
  \A i \in DOMAIN requests :
    LET widget == RenderApproval(requests[i].budgetData, approvalStates)
    IN  widget.view = "card" =>
          /\ widget.approveDisabled = (widget.budgetKey \in DOMAIN approvalStates)
          /\ widget.rejectDisabled = (widget.budgetKey \in DOMAIN approvalStates)
          /\ (ENABLED Approve(i)) = (widget.budgetKey \notin DOMAIN approvalStates)
          /\ (ENABLED Reject(i)) = (widget.budgetKey \notin DOMAIN approvalStates)

\* one card is decided and disabled while the card of another total is enabled
C14_Witness ==
  /\ Len(requests) = 2
  /\ RenderApproval(requests[1].budgetData, approvalStates).view = "card"
  /\ RenderApproval(requests[1].budgetData, approvalStates).approveDisabled
  /\ RenderApproval(requests[2].budgetData, approvalStates).view = "card"
  /\ ~RenderApproval(requests[2].budgetData, approvalStates).rejectDisabled

(* C15: every approve or reject action emits exactly one decision event,   *)
(* for its own call and with the approved flag it writes to the record of  *)
(* the key, and no step changes a record without emitting a decision event. *)
C15_DecisionEventPerAction ==
  [][ /\ \A i \in DOMAIN requests : \A b \in BOOLEAN :
           [request |-> i, approved |-> b] \in clicks' \ clicks =>
             LET key == RenderApproval(requests[i].budgetData, approvalStates).budgetKey
             IN  /\ Cardinality(responses' \ responses) = 1
                 /\ \A r \in responses' \ responses :
                      /\ r.request = i
                      /\ r.approved = b
                      /\ approvalStates'[key].approved = r.approved
      /\ approvalStates' # approvalStates => responses' # responses
    ]_vars

\* the widget of a call still in progress was approved: the record of its
\* key is written and shown as approved, and no decision was sent for it
C15_Witness ==
  \E i \in DOMAIN requests :
    /\ [request |-> i, approved |-> TRUE] \in clicks
    /\ Approved(approvalStates, ExpectedKey(requests[i].budgetData))
    /\ \A r \in responses : r.request # i

\* later extends earlier by events the scan does not select
UnrelatedExtension(earlier, later) ==
  /\ Len(later) > Len(earlier)
  /\ SubSeq(later, 1, Len(earlier)) = earlier
  /\ \A n \in (Len(earlier) + 1)..Len(later) : ~Processed(later[n])

(* C16: re-scanning is idempotent. A scan leaves the stream and the map as *)
(* they were, so scanning again right after it makes the same calls with   *)
(* the same values in the same order; and the re-scan that follows the     *)
(* arrival of events the scan does not select, under an unchanged map,     *)
(* makes exactly the calls of the scan before it.                          *)
C16_RescanIdempotent ==
  [][ (pendingEffect /\ ~pendingEffect') =>
        /\ visibleMessages' = visibleMessages /\ approvalStates' = approvalStates
        /\ extractDataFromMessages(visibleMessages', approvalStates').calls = lastScan'.calls
        /\ ( /\ lastScan.ran
             /\ lastScan'.approvals = lastScan.approvals
             /\ UnrelatedExtension(lastScan.messages, lastScan'.messages) )
           => lastScan'.calls = lastScan.calls
    ]_vars

\* a weather result was scanned and forwarded again after an unrelated event
C16_Witness ==
  /\ lastScan.ran /\ ~pendingEffect
  /\ Len(lastScan.messages) = 2
  /\ lastScan.messages[1] \in Encodings(VWeather)
  /\ ~Processed(lastScan.messages[2])
  /\ Values(lastScan.calls) = << [cb |-> "setWeatherData", arg |-> VWeather],
                                 [cb |-> "onWeatherUpdate", arg |-> VWeather] >>

\* the variant a scan shows for one message: the callback it invoked
ObservedVariant(calls) ==
  IF calls = << >> THEN "none"
  ELSE CASE calls[1].cb = "onItineraryUpdate"  -> "itinerary"
         [] calls[1].cb = "onBudgetUpdate"     -> "budget"
         [] calls[1].cb = "setWeatherData"     -> "weather"
         [] calls[1].cb = "onRestaurantUpdate" -> "restaurant"

\* a map in which the key of every payload is approved
AllApproved ==
  [k \in { BudgetKey(Get(v, "totalBudget")) : v \in PairObjects } |->
     [approved |-> TRUE, rejected |-> FALSE]]

\* the variant of a message scanned on its own, with nothing held back
VariantOf(msg) ==
  ObservedVariant(extractDataFromMessages(<< msg >>, AllApproved).calls)

(* C17: the variant a scan assigns to a result depends on that result      *)
(* alone. Whatever result stands before it and whatever the approval map    *)
(* holds, the scan shows the variant the result has when scanned on its    *)
(* own (a budget held back by the gate shows none, never another variant), *)
(* and two equal results in one stream are treated alike.                  *)
C17_ClassificationHistoryIndependent ==
  lastScan.ran =>
    \A n \in DOMAIN lastScan.messages :
      LET msg  == lastScan.messages[n]
          seen == ObservedVariant(CallsAt(lastScan.calls, n))
      IN  /\ VariantOf(msg) # "budget" => seen = VariantOf(msg)
          /\ VariantOf(msg) = "budget" => seen \in {"budget", "none"}
          /\ \A m \in DOMAIN lastScan.messages :
               lastScan.messages[m] = msg =>
                 Values(CallsAt(lastScan.calls, m)) = Values(CallsAt(lastScan.calls, n))

\* the same approved budget twice in one stream, forwarded twice, under a
\* map that holds a record
C17_Witness ==
  /\ lastScan.ran
  /\ Approved(lastScan.approvals, "budget-1500")
  /\ lastScan.messages[1] = lastScan.messages[2]
  /\ lastScan.messages[1] \in Encodings(VBudget1500)
  /\ ObservedVariant(CallsAt(lastScan.calls, 1)) = "budget"
  /\ ObservedVariant(CallsAt(lastScan.calls, 2)) = "budget"

InStream(v) == \E n \in DOMAIN visibleMessages : visibleMessages[n] \in Encodings(v)

Forwarded(v) ==
  /\ lastScan.ran
  /\ \E j \in DOMAIN lastScan.calls :
       lastScan.calls[j].cb = "onBudgetUpdate" /\ lastScan.calls[j].arg = v

(* C18: once a budget result is in the stream and its key is approved, in  *)
(* whichever order the two came about, the effect scans again and           *)
(* onBudgetUpdate is eventually invoked with that budget; no further        *)
(* message is needed, the approval itself schedules the scan.               *)
C18_ApprovalEventuallyForwards ==
  \A v \in RenderArgs :
    (InStream(v) /\ Approved(approvalStates, ExpectedKey(v))) ~> Forwarded(v)

\* the 2000 budget was approved before its result arrived, and a scan of
\* the stream holding nothing but that result forwarded it
C18_Witness ==
  /\ visibleMessages = << ResultMessage(A2A, ValueResult(VBudget2000)) >>
  /\ Approved(approvalStates, "budget-2000")
  /\ ~pendingEffect
  /\ Forwarded(VBudget2000)
  /\ home.budgetData = VBudget2000

\* budgets whose total is falsy: the number 0, the empty string, null
FalsyTotals == { VBudgetZero, VBudgetNoTotal, VBudgetNullTotal }

(* C19: a payload whose totalBudget is falsy is never a Budget. No scan    *)
(* calls onBudgetUpdate for it, also when the record of "budget-0" is      *)
(* approved, and no onBudgetUpdate ever carries a falsy total; the widget  *)
(* of such a budget shows the loading placeholder, its approve and reject  *)
(* actions cannot be taken, and no decision is ever made on it.            *)
C19_FalsyTotalNeverBudget ==
  /\ lastScan.ran =>
       /\ \A n \in DOMAIN lastScan.messages : \A v \in FalsyTotals :
            lastScan.messages[n] \in Encodings(v) =>
              \A j \in DOMAIN lastScan.calls :
                lastScan.calls[j].idx = n => lastScan.calls[j].cb # "onBudgetUpdate"
       /\ \A j \in DOMAIN lastScan.calls :
            lastScan.calls[j].cb = "onBudgetUpdate" =>
              Truthy(Get(lastScan.calls[j].arg, "totalBudget"))
  /\ \A i \in DOMAIN requests :
       requests[i].budgetData \in FalsyTotals =>
         /\ RenderApproval(requests[i].budgetData, approvalStates).view = "loading"
         /\ ~ENABLED Approve(i)
         /\ ~ENABLED Reject(i)
         /\ \A c \in clicks : c.request # i

\* the record of "budget-0" was approved, through a widget whose total is
\* the string "0", and the scan passed over the budget whose total is 0
C19_Witness ==
  /\ lastScan.ran
  /\ Approved(lastScan.approvals, "budget-0")
  /\ lastScan.messages[1] \in Encodings(VBudgetZero)
  /\ CallsAt(lastScan.calls, 1) = << >>
  /\ lastScan.messages[2] \in Encodings(VBudgetZeroText)
  /\ Values(CallsAt(lastScan.calls, 2)) = << [cb |-> "onBudgetUpdate", arg |-> VBudgetZeroText] >>

\* a field that is there, whatever its value
Present(v) == v.t # "undef"

\* a required field counts when it is there, or only when it is truthy
Has(x, reading) == IF reading = "truthy" THEN Truthy(x) ELSE Present(x)

\* the variant of a payload under a reading of its required fields
ShapeVariant(v, reading) ==
  IF Has(Get(v, "destination"), reading) /\ IsArray(Get(v, "itinerary")) THEN "itinerary"
  ELSE IF Has(Get(v, "totalBudget"), reading) /\ IsArray(Get(v, "breakdown")) THEN "budget"
  ELSE IF Has(Get(v, "destination"), reading) /\ IsArray(Get(v, "forecast")) THEN "weather"
  ELSE IF Has(Get(v, "destination"), reading) /\ IsArray(Get(v, "meals")) THEN "restaurant"
  ELSE "none"

\* what the scan shows at position n is the variant, a budget when its key
\* is approved
ShowsVariant(n, v, variant) ==
  ObservedVariant(CallsAt(lastScan.calls, n)) =
    IF variant = "budget" /\ ~Approved(lastScan.approvals, BudgetKey(Get(v, "totalBudget")))
    THEN "none" ELSE variant

(* C20 as stated: a shape predicate holds exactly when both required       *)
(* fields are present and the sequence field is a sequence.                *)
C20_ShapeWhenPresent ==
  lastScan.ran =>
    \A n \in DOMAIN lastScan.messages : \A v \in PairObjects :
      lastScan.messages[n] \in Encodings(v) => ShowsVariant(n, v, ShapeVariant(v, "present"))

(* C20: a shape predicate holds exactly when both required fields are      *)
(* truthy (a destination that is not empty, a total that is not zero) and  *)
(* the sequence field is a sequence, empty sequences included: an empty    *)
(* itinerary, forecast, meals or breakdown classifies like a filled one.   *)
C20_ShapeWhenTruthy ==
  lastScan.ran =>
    \A n \in DOMAIN lastScan.messages :
      /\ \A v \in PairObjects :
           lastScan.messages[n] \in Encodings(v) => ShowsVariant(n, v, ShapeVariant(v, "truthy"))
      /\ lastScan.messages[n] \in Encodings(VItineraryEmpty) => ShowsVariant(n, VItineraryEmpty, "itinerary")
      /\ lastScan.messages[n] \in Encodings(VWeather) => ShowsVariant(n, VWeather, "weather")
      /\ lastScan.messages[n] \in Encodings(VRestaurantEmpty) => ShowsVariant(n, VRestaurantEmpty, "restaurant")
      /\ lastScan.messages[n] \in Encodings(VBudget2000) => ShowsVariant(n, VBudget2000, "budget")

\* an itinerary with no days and an approved budget with no items, both
\* forwarded by one scan
C20_Witness ==
  /\ lastScan.ran
  /\ Approved(lastScan.approvals, "budget-2000")
  /\ lastScan.messages[1] \in Encodings(VItineraryEmpty)
  /\ Values(CallsAt(lastScan.calls, 1)) = << [cb |-> "onItineraryUpdate", arg |-> VItineraryEmpty] >>
  /\ lastScan.messages[2] \in Encodings(VBudget2000)
  /\ Values(CallsAt(lastScan.calls, 2)) = << [cb |-> "onBudgetUpdate", arg |-> VBudget2000] >>

\* the keys of the cards on screen
CardKeys ==
  { RenderApproval(requests[i].budgetData, approvalStates).budgetKey :
      i \in { n \in DOMAIN requests :
                RenderApproval(requests[n].budgetData, approvalStates).view = "card" } }

(* C21: the approve and the reject write replace the record of the key.    *)
(* Applied to any map of the session, for the key of any card, a write      *)
(* made twice leaves the map the first write made, the record being        *)
(* {approved: true, rejected: false} (reject: the reverse), whatever        *)
(* record the key held before; the write is defined on a key that already   *)
(* has a record, and on it the same decision changes nothing.               *)
C21_WritesIdempotent ==
  \A k \in CardKeys :
    LET approved == ApproveWrite(approvalStates, k)
        rejected == RejectWrite(approvalStates, k)
    IN  /\ ApproveWrite(approved, k) = approved
        /\ RejectWrite(rejected, k) = rejected
        /\ approved[k] = [approved |-> TRUE, rejected |-> FALSE]
        /\ rejected[k] = [approved |-> FALSE, rejected |-> TRUE]
        /\ ApproveWrite(rejected, k) = approved
        /\ RejectWrite(approved, k) = rejected
        /\ Approved(approvalStates, k) => approved = approvalStates
        /\ Rejected(approvalStates, k) => rejected = approvalStates

\* a card whose key is approved next to the record of another key: the
\* approve write on it would be a duplicate
C21_Witness ==
  /\ "budget-1500" \in CardKeys
  /\ Approved(approvalStates, "budget-1500")
  /\ Rejected(approvalStates, "budget-2000")

(* C22: a decision on a key changes the record of that key only. In every  *)
(* step the keys that had a record keep it, unchanged, and a step that      *)
(* changes the map is a decision on one widget and adds the key of that    *)
(* widget and no other: the set of keys with a record only grows.          *)
C22_DecisionChangesOnlyItsKey ==
  [][ /\ DOMAIN approvalStates \subseteq DOMAIN approvalStates'
      /\ \A k \in DOMAIN approvalStates : approvalStates'[k] = approvalStates[k]
      /\ approvalStates' # approvalStates =>
           \E c \in clicks' \ clicks :
             DOMAIN approvalStates' = DOMAIN approvalStates \cup
               { RenderApproval(requests[c.request].budgetData, approvalStates).budgetKey }
    ]_vars

\* the 1500 budget was decided first and its record is still there after
\* the decision on the 2000 budget
C22_Witness ==
  /\ Len(requests) = 2
  /\ requests[1].budgetData = VBudget1500 /\ requests[2].budgetData = VBudget2000
  /\ clicks = { [request |-> 1, approved |-> TRUE], [request |-> 2, approved |-> FALSE] }
  /\ approvalStates = [k \in {"budget-1500", "budget-2000"} |->
                         [approved |-> k = "budget-1500", rejected |-> k = "budget-2000"]]

\* the key of the widget of request i has no record: the budget is pending
Pending(i) ==
  /\ RenderApproval(requests[i].budgetData, approvalStates).view = "card"
  /\ RenderApproval(requests[i].budgetData, approvalStates).budgetKey
       \notin DOMAIN approvalStates

(* C23: the scan modifies neither the approval map nor the stream, and     *)
(* only the approve and reject handlers write the map: a step that changes *)
(* the map is a user action on a widget, so the arrival of a message, a    *)
(* scan, the render of a widget or the binding of its respond leave every  *)
(* record, and every pending budget, as it was.                            *)
C23_OnlyUserActionsWriteMap ==
  [][ /\ (pendingEffect /\ ~pendingEffect') =>
           approvalStates' = approvalStates /\ visibleMessages' = visibleMessages
      /\ approvalStates' # approvalStates => clicks' # clicks
      /\ clicks' = clicks =>
           \A i \in DOMAIN requests : Pending(i) => Pending(i)'
    ]_vars

\* the result of the 1500 budget has arrived and been scanned, its widget
\* is on screen with respond bound, and the budget is still pending
C23_Witness ==
  /\ lastScan.ran /\ ~pendingEffect
  /\ \E n \in DOMAIN lastScan.messages : lastScan.messages[n] \in Encodings(VBudget1500)
  /\ lastScan.calls = << >>
  /\ Len(requests) = 1
  /\ requests[1] = [budgetData |-> VBudget1500, status |-> "executing"]
  /\ Pending(1)
  /\ clicks = { }

\* the fields of the form that are not valid
Offending(f) ==
  (IF Trim(f.city.s) = "" THEN {"city"} ELSE { })
  \cup (IF ~(f.numberOfDays.t = "num" /\ 1 <= f.numberOfDays.n /\ f.numberOfDays.n <= 7)
        THEN {"numberOfDays"} ELSE { })
  \cup (IF ~(f.numberOfPeople.t = "num" /\ 1 <= f.numberOfPeople.n /\ f.numberOfPeople.n <= 15)
        THEN {"numberOfPeople"} ELSE { })

\* a step of the form that changes none of its inputs: a submit
SubmitStep ==
  /\ form' # form
  /\ form'.args = form.args /\ form'.prefillPending = form.prefillPending
  /\ form'.city = form.city /\ form'.numberOfDays = form.numberOfDays
  /\ form'.numberOfPeople = form.numberOfPeople /\ form'.budgetLevel = form.budgetLevel
  /\ form'.submitted # form.submitted \/ form'.errors # form.errors

(* C24: the form answers with validated values only. Every answer handed   *)
(* to respond has a city that is not empty and is trimmed, 1 to 7 days and *)
(* 1 to 15 people, also after a pre-fill from args outside these ranges;   *)
(* and a submit with an invalid field hands over no answer, leaves the     *)
(* form un-submitted and records an error for exactly the invalid fields.  *)
C24_RespondsOnlyValidated ==
  [][ /\ form'.responses # form.responses =>
           /\ Offending(form) = { }
           /\ form'.responses = Append(form.responses, Answer(form))
           /\ Answer(form).city.s = Trim(form.city.s) /\ Answer(form).city.s # ""
           /\ Answer(form).numberOfDays.n \in 1..7
           /\ Answer(form).numberOfPeople.n \in 1..15
      /\ (SubmitStep /\ Offending(form) # { }) =>
           /\ form'.responses = form.responses
           /\ ~form'.submitted
           /\ form'.errors = Offending(form)
    ]_vars

\* the args pre-filled 10 days, 16 people and a blank city; the user
\* corrected all three, and the form then answered
C24_Witness ==
  /\ form.args.numberOfDays = Num(10) /\ form.args.numberOfPeople = Num(16)
  /\ ~form.prefillPending
  /\ form.responses = << [city |-> Str("Rome"), numberOfDays |-> Num(7),
                          numberOfPeople |-> Num(15), budgetLevel |-> Str("Economy")] >>

(* C25: the budget level of every answer of the form is one of Economy,    *)
(* Comfort or Premium, whatever pre-fills from the orchestrator's args and *)
(* whatever selections of the user came before the submit.                 *)
C25_BudgetLevelOneOfThree ==
  \A k \in DOMAIN form.responses :
    /\ form.responses[k].budgetLevel.t = "str"
    /\ form.responses[k].budgetLevel.s \in BudgetLevels

\* the args named a level that is none of the three buttons, the pre-fill
\* took it, and the form answered with valid city, days and people
C25_Witness ==
  /\ form.args.budgetLevel = Str("Luxury")
  /\ ~form.prefillPending
  /\ form.submitted
  /\ Len(form.responses) = 1
  /\ form.responses[1].budgetLevel = Str("Luxury")
  /\ Offending([form EXCEPT !.city = form.responses[1].city]) = { }

\* a decision event was emitted for request i
Decided(i) == \E r \in responses : r.request = i

(* C26: every approval request that still awaits its decision can be       *)
(* decided. If the card of a request is rendered and no decision event was *)
(* emitted for that request, its approve and reject actions are enabled,   *)
(* also when an earlier request with the same totalBudget was decided.     *)
C26_AwaitingRequestDecidable ==
  \A i \in DOMAIN requests :
    LET widget == RenderApproval(requests[i].budgetData, approvalStates)
    IN  (widget.view = "card" /\ ~Decided(i)) =>
          ~widget.approveDisabled /\ ~widget.rejectDisabled

\* two proposals with the same total and different breakdowns: the first
\* was decided, the second was not and its call still waits for respond
C26_Witness ==
  /\ Len(requests) = 2
  /\ requests[1].budgetData # requests[2].budgetData
  /\ RenderApproval(requests[1].budgetData, approvalStates).budgetKey
       = RenderApproval(requests[2].budgetData, approvalStates).budgetKey
  /\ Decided(1) /\ ~Decided(2)
  /\ requests[2].status = "executing"
  /\ RenderApproval(requests[2].budgetData, approvalStates).view = "card"
  /\ RenderApproval(requests[2].budgetData, approvalStates).approveDisabled
  /\ RenderApproval(requests[2].budgetData, approvalStates).rejectDisabled

\* the payload a result carries
PayloadOf(msg) == ParseResult(msg.result).val

\* the places in the stream of the results that count for a slot: the
\* results of its variant and, for the budget slot, of an approved key
SlotIndexes(messages, approvals, variant) ==
  { n \in DOMAIN messages :
      /\ IsA2AResult(messages[n])
      /\ VariantOf(messages[n]) = variant
      /\ variant = "budget" =>
            Approved(approvals, BudgetKey(Get(PayloadOf(messages[n]), "totalBudget"))) }

\* the payload of the last of them in stream order, if there is one
LastPayload(messages, approvals, variant) ==
  LET S == SlotIndexes(messages, approvals, variant)
  IN  IF S = { } THEN NoData
      ELSE PayloadOf(messages[CHOOSE n \in S : \A m \in S : m <= n])

(* C27: after a scan each display slot holds the last matching payload in  *)
(* stream order. The itinerary, weather and restaurant slots hold the last  *)
(* result of their variant in the scanned stream, and the budget slot      *)
(* holds the last budget result whose key was approved at the scan, so an  *)
(* approved budget stays displayed while a later one is pending or         *)
(* rejected; a slot with no such result is empty.                          *)
C27_SlotsHoldLastMatching ==
  lastScan.ran =>
    /\ home.itineraryData  = LastPayload(lastScan.messages, lastScan.approvals, "itinerary")
    /\ home.budgetData     = LastPayload(lastScan.messages, lastScan.approvals, "budget")
    /\ home.weatherData    = LastPayload(lastScan.messages, lastScan.approvals, "weather")
    /\ home.restaurantData = LastPayload(lastScan.messages, lastScan.approvals, "restaurant")

\* the 1500 budget was approved and the later 2000 budget rejected: the
\* scan of both leaves the 1500 budget displayed
C27_Witness ==
  /\ lastScan.ran /\ ~pendingEffect
  /\ Len(lastScan.messages) = 2
  /\ PayloadOf(lastScan.messages[1]) = VBudget1500
  /\ PayloadOf(lastScan.messages[2]) = VBudget2000
  /\ Approved(lastScan.approvals, "budget-1500")
  /\ Rejected(lastScan.approvals, "budget-2000")
  /\ home.budgetData = VBudget1500

(* C28: no update callback is invoked with null, and a display slot that  *)
(* holds a payload is never cleared. Every argument a scan passes to       *)
(* onItineraryUpdate, onBudgetUpdate, onWeatherUpdate or onRestaurantUpdate *)
(* is a payload, and in every step a slot that was set stays set: a budget *)
(* once forwarded stays displayed whatever is decided afterwards.          *)
C28_SlotsNeverCleared ==
  [][ /\ \A j \in DOMAIN lastScan'.calls :
            /\ lastScan'.calls[j].arg \notin {JSNull, JSUndefined}
            /\ Truthy(lastScan'.calls[j].arg)
      /\ \A slot \in DOMAIN home : home[slot] # NoData => home'[slot] # NoData
    ]_vars

\* the 1500 budget was forwarded; the 2000 budget was rejected and a null
\* result arrived, and the scan of both leaves the 1500 budget displayed
C28_Witness ==
  /\ lastScan.ran /\ ~pendingEffect
  /\ Len(lastScan.messages) = 2
  /\ PayloadOf(lastScan.messages[1]) = VBudget1500
  /\ PayloadOf(lastScan.messages[2]) = JSNull
  /\ Approved(lastScan.approvals, "budget-1500")
  /\ Rejected(lastScan.approvals, "budget-2000")
  /\ home.budgetData = VBudget1500
  /\ home.itineraryData = NoData

(* C29: the form answers at most once. Once submitted is set it is never  *)
(* reset, the success view offers no submit action, respond is called at   *)
(* most once for the form, only by the step that sets submitted, and no    *)
(* change of the args after the submit leads to another call.              *)
C29_FormAnswersAtMostOnce ==
  [][ /\ form.submitted => form'.submitted
      /\ form.submitted => ~ENABLED Submit
      /\ form.submitted => form'.responses = form.responses
      /\ form'.responses # form.responses => ~form.submitted /\ form'.submitted
      /\ Len(form'.responses) <= 1
    ]_vars

\* the form answered with Rome; the args then changed to Paris and the
\* pre-fill took them into the fields of the submitted form
C29_Witness ==
  /\ form.submitted
  /\ Len(form.responses) = 1
  /\ form.responses[1].city = Str("Rome")
  /\ form.args.city = Str("Paris") /\ ~form.prefillPending
  /\ form.city = Str("Paris")
  /\ form.numberOfDays # form.responses[1].numberOfDays

\* the meals column the card is to show for one day: the first entry of
\* the restaurant result whose day is that day, by position in the result
MealsOfDay(restaurantData, day) ==
  LET entries == MealEntries(restaurantData)
      S == { j \in DOMAIN entries : entries[j].day = day }
  IN  IF S = { }
      THEN [shows |-> Awaiting, breakfast |-> Null, lunch |-> Null, dinner |-> Null]
      ELSE LET first == CHOOSE j \in S : \A m \in S : j <= m
           IN  [shows |-> "meals", breakfast |-> entries[first].breakfast,
                lunch |-> entries[first].lunch, dinner |-> entries[first].dinner]

(* C30: the meals fill the itinerary whatever the order of arrival. Once a *)
(* scan has seen an itinerary result and a restaurant result, in either    *)
(* order, the itinerary card shows for every day of the itinerary the      *)
(* meals of the first restaurant entry of that day, and the awaiting       *)
(* placeholder for a day without an entry; a restaurant result with no     *)
(* itinerary, budget or weather leaves the empty-state placeholder.        *)
C30_MealsFillItinerary ==
  LET data           == LastPayload(lastScan.messages, lastScan.approvals, "itinerary")
      restaurantData == LastPayload(lastScan.messages, lastScan.approvals, "restaurant")
      view           == HomeView(home)
  IN  /\ (data # NoData /\ restaurantData # NoData) =>
            /\ ~view.emptyState /\ view.itineraryCard
            /\ DOMAIN view.days = DOMAIN ItineraryDays(data)
            /\ \A k \in DOMAIN view.days :
                  view.days[k] = MealsOfDay(restaurantData, ItineraryDays(data)[k].day)
      /\ (restaurantData # NoData /\ data = NoData /\ home.budgetData = NoData
            /\ home.weatherData = NoData) =>
            /\ view.emptyState
            /\ ~view.weatherCard /\ ~view.itineraryCard /\ ~view.budgetBreakdown

\* the restaurant result arrived and was scanned before the itinerary: the
\* card shows day 1 and the first entry of day 2, and awaits day 3
C30_Witness ==
  /\ lastScan.ran /\ ~pendingEffect
  /\ Len(lastScan.messages) = 2
  /\ PayloadOf(lastScan.messages[1]) = VRestaurantDays
  /\ PayloadOf(lastScan.messages[2]) = VItineraryDays
  /\ Len(HomeView(home).days) = 3
  /\ HomeView(home).days[1].breakfast = Str("Bakery")
  /\ HomeView(home).days[2].breakfast = Str("Cafe A")
  /\ HomeView(home).days[3].shows = Awaiting

====
